---- MODULE Spec2Model ----
(***************************************************************************)
(* Model of bin/generate_eip7002_testvectors.py: the EIP-7002 fee          *)
(* approximation fake_exponential and the script that generates, writes    *)
(* and prints the test vectors.                                            *)
(*                                                                         *)
(* Python integers are unbounded.  The values the script computes reach    *)
(* 7.6 * 10^15 (the term of the series for an excess of 512), beyond the   *)
(* 32-bit integers of TLC, so every integer that grows with the series     *)
(* is a Big:        its sequence of limbs in base Base, least significant  *)
(* first, without leading zero limbs (zero is the empty sequence).  The    *)
(* arguments and the step counter stay small and are plain numbers.        *)
(***************************************************************************)
EXTENDS Integers, Sequences, FiniteSets, TLC

\* ------------------------------------------------------------------------
\* Constants of the script

MIN_WITHDRAWAL_REQUEST_FEE == 1

WITHDRAWAL_REQUEST_FEE_UPDATE_FRACTION == 17

\* range(0, 10): the exponents of the excess values
NumExcessValues == 10

\* the request counts of the inner loop, in the order of the list literal
RequestCounts == <<1, 2, 8, 16, 32, 64, 100>>

\* ------------------------------------------------------------------------
\* Bounds of the inputs fake_exponential is explored on by itself

MaxFactor == 3

MaxNumerator == 12

MaxDenominator == 4

\* ------------------------------------------------------------------------
\* Unbounded integers (Python int)

Base == 10^4

RECURSIVE Nat2Big(_)
Nat2Big(n) ==
    IF n = 0 THEN <<>> ELSE <<n % Base>> \o Nat2Big(n \div Base)

\* a + b + carry
RECURSIVE BigAddC(_, _, _)
BigAddC(a, b, c) ==
    IF a = <<>> /\ b = <<>> THEN Nat2Big(c)
    ELSE LET x == IF a = <<>> THEN 0 ELSE Head(a)
             y == IF b = <<>> THEN 0 ELSE Head(b)
             t == x + y + c
         IN  <<t % Base>> \o BigAddC(IF a = <<>> THEN a ELSE Tail(a),
                                     IF b = <<>> THEN b ELSE Tail(b),
                                     t \div Base)

BigAdd(a, b) == BigAddC(a, b, 0)

\* a * k + carry, for a plain number k > 0
RECURSIVE BigMulC(_, _, _)
BigMulC(a, k, c) ==
    IF a = <<>> THEN Nat2Big(c)
    ELSE LET t == Head(a) * k + c
         IN  <<t % Base>> \o BigMulC(Tail(a), k, t \div Base)

BigMul(a, k) == IF k = 0 THEN <<>> ELSE BigMulC(a, k, 0)

\* drop the leading (last) zero limbs
RECURSIVE BigNormal(_)
BigNormal(a) ==
    IF a = <<>> THEN a
    ELSE IF a[Len(a)] = 0 THEN BigNormal(SubSeq(a, 1, Len(a) - 1))
    ELSE a

\* the limbs of floor(a / k) below position n + 1, given the remainder r
\* the limbs above left
RECURSIVE BigDivR(_, _, _, _)
BigDivR(a, k, n, r) ==
    IF n = 0 THEN <<>>
    ELSE LET t == r * Base + a[n]
         IN  BigDivR(a, k, n - 1, t % k) \o <<t \div k>>

\* floor(a / k), Python's a // k for a >= 0 and a plain number k > 0
BigDiv(a, k) == BigNormal(BigDivR(a, k, Len(a), 0))

\* a < b
RECURSIVE BigLess(_, _)
BigLess(a, b) ==
    IF Len(a) # Len(b) THEN Len(a) < Len(b)
    ELSE IF a = <<>> THEN FALSE
    ELSE IF a[Len(a)] # b[Len(b)] THEN a[Len(a)] < b[Len(b)]
    ELSE BigLess(SubSeq(a, 1, Len(a) - 1), SubSeq(b, 1, Len(b) - 1))

BigZero == <<>>

\* ------------------------------------------------------------------------
\* fake_exponential

\* the frame at the first test of the loop: the arguments and lines 11-13
Entry(factor, numerator, denominator) ==
    [pc |-> "loop",
     factor |-> factor, numerator |-> numerator, denominator |-> denominator,
     i |-> 1,
     output |-> BigZero,
     numerator_accum |-> Nat2Big(factor * denominator)]

\* the test of the while loop, line 14
LoopCondition(f) == BigLess(BigZero, f.numerator_accum)

\* line 16 with the step counter left out of the divisor
NextTermNoStep(f) ==
    BigDiv(BigMul(f.numerator_accum, f.numerator), f.denominator)

\* line 16 with the numerator added instead of multiplied
NextTermAdd(f) ==
    BigDiv(BigAdd(f.numerator_accum, Nat2Big(f.numerator)),
           f.denominator * f.i)

\* the next term of the series, line 16
NextTerm(f) ==
    BigDiv(BigMul(f.numerator_accum, f.numerator), f.denominator * f.i)

\* lines 15-17 with line 15 assigning instead of accumulating
LoopBodyAssign(f) ==
    [f EXCEPT !.output = f.numerator_accum,
              !.numerator_accum =
                 BigDiv(BigMul(f.numerator_accum, f.numerator),
                        f.denominator * f.i),
              !.i = f.i + 1]

\* one execution of the loop body, lines 15-17
LoopBody(f) ==
    [f EXCEPT !.output = BigAdd(f.output, f.numerator_accum),
              !.numerator_accum = NextTerm(f),
              !.i = f.i + 1]

\* line 18 without the final division
ReturnValueNoDiv(f) == f.output

\* the return statement, line 18
ReturnValue(f) == BigDiv(f.output, f.denominator)

\* the frame when the loop is left
RECURSIVE RunLoop(_)
RunLoop(f) == IF LoopCondition(f) THEN RunLoop(LoopBody(f)) ELSE f

fake_exponential(factor, numerator, denominator) ==
    ReturnValue(RunLoop(Entry(factor, numerator, denominator)))

\* ------------------------------------------------------------------------
\* State

VARIABLES
    pc,            \* per run: the statement the script is at
    i,             \* per run: the loop variable of line 25
    j,             \* per run: the position of the inner loop in RequestCounts
    test_vectors,  \* per run: the list of line 23
    output,        \* per run: the document of line 45, Unbound before
    file,          \* per run: what tests/fixtures/eip7002_testvectors.json holds
    console,       \* per run: the lines printed so far
    exit_code,     \* per run: the exit status, NotExited while running
    calls,         \* per run: how many times fake_exponential was called
    writes,        \* per run: how many times the file was opened for writing
    frame          \* the frame of a call of fake_exponential explored by itself

script_vars ==
    <<pc, i, j, test_vectors, output, file, console, exit_code, calls, writes>>

vars ==
    <<pc, i, j, test_vectors, output, file, console, exit_code, calls, writes,
      frame>>

\* the runs of the script that exist
Runs == DOMAIN pc

\* no call of fake_exponential is explored by itself
NoFrame == [pc |-> "none"]

\* a name the script has not assigned yet
Unbound == [kind |-> "unbound"]

\* the exit status of a process that has not exited
NotExited == -1

\* what the target file may hold before a run
NoFile == [kind |-> "absent"]

StaleFile == [kind |-> "stale"]

PartialFile == [kind |-> "partial"]

PriorContents == {NoFile, StaleFile}

\* json.dump into a file opened with mode 'a': the old content stays
DumpAppend(old, doc) ==
    [kind |-> "json", indent |-> 2, value |-> doc, after |-> old]

\* json.dump(output, f, indent=2) into the file just truncated by mode 'w'
Dump(old, doc) == [kind |-> "json", indent |-> 2, value |-> doc]

\* the dictionary appended at lines 37-42
Vector(number_of_withdrawal_requests, base_excess, base_fee, expected_fee) ==
    [numberOfWithdrawalRequests |-> number_of_withdrawal_requests,
     baseExcess |-> base_excess,
     baseFee |-> base_fee,
     expectedFee |-> expected_fee]

\* test_vectors.insert(0, ...) in the place of append
ListPrepend(list, v) == <<v>> \o list

\* test_vectors.append(...), line 37
ListAppend(list, v) == Append(list, v)

\* the call hoisted out of the inner loop: made at its first position only
CallCountHoisted(c, jr) == IF jr = 1 THEN c + 1 ELSE c

\* the calls of fake_exponential made once the body of the inner loop has
\* run at position jr of RequestCounts: the call of lines 29-33 stands in
\* the inner loop, so every execution of the body makes it
CallCount(c, jr) == c + 1

\* the call with numerator and denominator exchanged
BaseFeeSwapped(base_excess) ==
    fake_exponential(MIN_WITHDRAWAL_REQUEST_FEE,
                     WITHDRAWAL_REQUEST_FEE_UPDATE_FRACTION, base_excess)

\* the call of lines 29-33
BaseFee(base_excess) ==
    fake_exponential(MIN_WITHDRAWAL_REQUEST_FEE, base_excess,
                     WITHDRAWAL_REQUEST_FEE_UPDATE_FRACTION)

\* line 35
ExpectedFee(base_fee, number_of_withdrawal_requests) ==
    BigMul(base_fee, number_of_withdrawal_requests)

\* the dictionary of lines 45-51
Document(vectors) ==
    [vectors |-> vectors,
     constants |->
        [MIN_WITHDRAWAL_REQUEST_FEE |-> MIN_WITHDRAWAL_REQUEST_FEE,
         WITHDRAWAL_REQUEST_FEE_UPDATE_FRACTION |->
            WITHDRAWAL_REQUEST_FEE_UPDATE_FRACTION]]

\* the line printed at line 58
TotalLine(vectors) == [line |-> "total", count |-> Len(vectors)]

\* the line printed at line 60 for vector v
VectorLine(v) ==
    [line |-> "vector",
     numberOfWithdrawalRequests |-> v.numberOfWithdrawalRequests,
     baseExcess |-> v.baseExcess,
     baseFee |-> v.baseFee,
     expectedFee |-> v.expectedFee]

\* ------------------------------------------------------------------------
\* The script

InitRuns(R) ==
    /\ pc = [r \in R |-> "generate"]
    /\ i = [r \in R |-> 0]
    /\ j = [r \in R |-> 1]
    /\ test_vectors = [r \in R |-> <<>>]
    /\ output = [r \in R |-> Unbound]
    /\ file \in [R -> PriorContents]
    /\ console = [r \in R |-> <<>>]
    /\ exit_code = [r \in R |-> NotExited]
    /\ calls = [r \in R |-> 0]
    /\ writes = [r \in R |-> 0]

\* one run of the script
Init == InitRuns({1}) /\ frame = NoFrame

\* two runs of the script
InitPair == InitRuns({1, 2}) /\ frame = NoFrame

\* one execution of the body of the inner loop, lines 25-42
Generate(r) ==
    /\ pc[r] = "generate"
    /\ i[r] < NumExcessValues
    /\ LET base_excess == 2^(i[r])
           number_of_withdrawal_requests == RequestCounts[j[r]]
       IN  \E base_fee \in {BaseFee(base_excess)} :
           \E expected_fee \in
                 {ExpectedFee(base_fee, number_of_withdrawal_requests)} :
              test_vectors' =
                [test_vectors EXCEPT ![r] =
                   ListAppend(@, Vector(number_of_withdrawal_requests,
                                        base_excess, base_fee,
                                        expected_fee))]
    /\ calls' = [calls EXCEPT ![r] = CallCount(@, j[r])]
    /\ IF j[r] < Len(RequestCounts)
       THEN j' = [j EXCEPT ![r] = @ + 1] /\ i' = i
       ELSE j' = [j EXCEPT ![r] = 1] /\ i' = [i EXCEPT ![r] = @ + 1]
    /\ UNCHANGED <<pc, output, file, console, exit_code, writes, frame>>

\* the loops are done; lines 45-51
BuildDocument(r) ==
    /\ pc[r] = "generate"
    /\ i[r] = NumExcessValues
    /\ output' = [output EXCEPT ![r] = Document(test_vectors[r])]
    /\ pc' = [pc EXCEPT ![r] = "write"]
    /\ UNCHANGED <<i, j, test_vectors, file, console, exit_code, calls,
                   writes, frame>>

\* lines 54-55 inside try/except: a failure is swallowed and the script
\* goes on to the summary
WriteSwallow(r) ==
    /\ pc[r] = "write"
    /\ \/ /\ file' = [file EXCEPT ![r] = [kind |-> "json", indent |-> 2,
                                           value |-> output[r]]]
          /\ writes' = [writes EXCEPT ![r] = @ + 1]
       \/ UNCHANGED <<file, writes>>
       \/ /\ file' = [file EXCEPT ![r] = PartialFile]
          /\ writes' = [writes EXCEPT ![r] = @ + 1]
    /\ pc' = [pc EXCEPT ![r] = "print_total"]
    /\ UNCHANGED <<i, j, test_vectors, output, console, exit_code, calls,
                   frame>>

\* lines 54-55 in a retry loop: a failed dump is tried again
WriteRetry(r) ==
    /\ pc[r] = "write"
    /\ writes[r] < 3
    /\ \/ /\ file' = [file EXCEPT ![r] = [kind |-> "json", indent |-> 2,
                                           value |-> output[r]]]
          /\ pc' = [pc EXCEPT ![r] = "print_total"]
       \/ /\ file' = [file EXCEPT ![r] = PartialFile]
          /\ pc' = pc
    /\ writes' = [writes EXCEPT ![r] = @ + 1]
    /\ UNCHANGED <<i, j, test_vectors, output, console, exit_code, calls,
                   frame>>

\* lines 54-55.  open() raises when the directory is missing or not
\* writable; json.dump raises when the device fails under it.  Nothing
\* catches either: the interpreter prints the traceback and exits with 1.
Write(r) ==
    /\ pc[r] = "write"
    /\ \/ /\ file' = [file EXCEPT ![r] = Dump(@, output[r])]
          /\ writes' = [writes EXCEPT ![r] = @ + 1]
          /\ pc' = [pc EXCEPT ![r] = "print_total"]
          /\ UNCHANGED exit_code
       \/ /\ UNCHANGED <<file, writes>>
          /\ pc' = [pc EXCEPT ![r] = "error"]
          /\ exit_code' = [exit_code EXCEPT ![r] = 1]
       \/ /\ file' = [file EXCEPT ![r] = PartialFile]
          /\ writes' = [writes EXCEPT ![r] = @ + 1]
          /\ pc' = [pc EXCEPT ![r] = "error"]
          /\ exit_code' = [exit_code EXCEPT ![r] = 1]
    /\ UNCHANGED <<i, j, test_vectors, output, console, calls, frame>>

\* line 58
PrintTotal(r) ==
    /\ pc[r] = "print_total"
    /\ console' = [console EXCEPT ![r] = Append(@, TotalLine(test_vectors[r]))]
    /\ pc' = [pc EXCEPT ![r] = "print_vectors"]
    /\ UNCHANGED <<i, j, test_vectors, output, file, exit_code, calls, writes,
                   frame>>

\* how many vectors the loop of line 59 has printed
Printed(r) == Len(console[r]) - 1

\* one execution of the body of the loop of lines 59-60
PrintVector(r) ==
    /\ pc[r] = "print_vectors"
    /\ Printed(r) < Len(test_vectors[r])
    /\ console' =
         [console EXCEPT ![r] =
            Append(@, VectorLine(test_vectors[r][Printed(r) + 1]))]
    /\ UNCHANGED <<pc, i, j, test_vectors, output, file, exit_code, calls,
                   writes, frame>>

\* the end of the script: the interpreter exits with 0
Exit(r) ==
    /\ pc[r] = "print_vectors"
    /\ Printed(r) = Len(test_vectors[r])
    /\ pc' = [pc EXCEPT ![r] = "done"]
    /\ exit_code' = [exit_code EXCEPT ![r] = 0]
    /\ UNCHANGED <<i, j, test_vectors, output, file, console, calls, writes,
                   frame>>

Next ==
    \/ \E r \in Runs : Generate(r)
    \/ \E r \in Runs : BuildDocument(r)
    \/ \E r \in Runs : Write(r)
    \/ \E r \in Runs : PrintTotal(r)
    \/ \E r \in Runs : PrintVector(r)
    \/ \E r \in Runs : Exit(r)

Spec == Init /\ [][Next]_vars

SpecPair == InitPair /\ [][Next]_vars

\* ------------------------------------------------------------------------
\* fake_exponential by itself, one loop iteration at a time

InitCall ==
    /\ InitRuns({})
    /\ frame \in {Entry(factor, numerator, denominator) :
                    factor \in 0..MaxFactor,
                    numerator \in 0..MaxNumerator,
                    denominator \in 1..MaxDenominator}

\* lines 14-17
Iterate ==
    /\ frame.pc = "loop"
    /\ LoopCondition(frame)
    /\ frame' = LoopBody(frame)
    /\ UNCHANGED script_vars

\* lines 14 and 18
Return ==
    /\ frame.pc = "loop"
    /\ ~LoopCondition(frame)
    /\ frame' = [pc |-> "done",
                 factor |-> frame.factor, numerator |-> frame.numerator,
                 denominator |-> frame.denominator,
                 i |-> frame.i,
                 output |-> frame.output,
                 numerator_accum |-> frame.numerator_accum,
                 result |-> ReturnValue(frame)]
    /\ UNCHANGED script_vars

NextCall == Iterate \/ Return

SpecCall == InitCall /\ [][NextCall]_vars

\* the interpreter keeps executing the loop: no step of it is postponed
\* for ever
SpecCallFair == SpecCall /\ WF_vars(NextCall)

\* ------------------------------------------------------------------------
\* Properties

\* a * n by doubling and adding: the product stated without BigMul
RECURSIVE BigTimes(_, _)
BigTimes(a, n) ==
    IF n = 0 THEN BigZero
    ELSE IF n % 2 = 1 THEN BigAdd(a, BigTimes(a, n - 1))
    ELSE LET h == BigTimes(a, n \div 2) IN BigAdd(h, h)

\* a <= b
BigLeq(a, b) == a = b \/ BigLess(a, b)

\* the excess values and request counts the claims name
ClaimedExcessValues == {2^e : e \in 0..9}

ClaimedCounts == <<1, 2, 8, 16, 32, 64, 100>>

ClaimedCountSet == {ClaimedCounts[k] : k \in 1..Len(ClaimedCounts)}

\* C1: at every point of the run every record already appended has
\* expectedFee equal to the exact integer product baseFee *
\* numberOfWithdrawalRequests, and baseFee equal to
\* fake_exponential(MIN_WITHDRAWAL_REQUEST_FEE, baseExcess,
\* WITHDRAWAL_REQUEST_FEE_UPDATE_FRACTION), the excess being one of 2^0..2^9
\* and the count one of 1, 2, 8, 16, 32, 64, 100.
VectorsConsistent ==
    \A r \in Runs : \A k \in 1..Len(test_vectors[r]) :
        LET v == test_vectors[r][k]
        IN  /\ v.baseExcess \in ClaimedExcessValues
            /\ v.numberOfWithdrawalRequests \in ClaimedCountSet
            /\ v.baseFee =
                 fake_exponential(MIN_WITHDRAWAL_REQUEST_FEE, v.baseExcess,
                                  WITHDRAWAL_REQUEST_FEE_UPDATE_FRACTION)
            /\ v.expectedFee =
                 BigTimes(v.baseFee, v.numberOfWithdrawalRequests)

\* C1 witness: all seventy records are in the list and the last one holds
\* the fee for an excess of 512 and its product by 100,
\* 12020397140344 and 1202039714034400.
VectorsConsistentWitness ==
    \E r \in Runs :
        /\ Len(test_vectors[r]) = 70
        /\ test_vectors[r][70].baseExcess = 512
        /\ test_vectors[r][70].numberOfWithdrawalRequests = 100
        /\ BigLess(Nat2Big(10^9), test_vectors[r][70].baseFee)
        /\ BigDiv(test_vectors[r][70].expectedFee, 10^2) =
             test_vectors[r][70].baseFee

\* the record at each position is the one the nested order puts there, and
\* the list is complete once the loops are left
OrderedState ==
    \A r \in Runs :
        /\ Len(test_vectors[r]) <= 70
        /\ pc[r] # "generate" => Len(test_vectors[r]) = 70
        /\ \A k \in 1..Len(test_vectors[r]) :
             /\ test_vectors[r][k].baseExcess = 2^((k - 1) \div 7)
             /\ test_vectors[r][k].numberOfWithdrawalRequests =
                  ClaimedCounts[((k - 1) % 7) + 1]

\* a step leaves the list alone or appends one record at its end
AppendOnly ==
    \A r \in Runs :
        \/ test_vectors'[r] = test_vectors[r]
        \/ /\ Len(test_vectors'[r]) = Len(test_vectors[r]) + 1
           /\ SubSeq(test_vectors'[r], 1, Len(test_vectors[r])) =
                test_vectors[r]

\* C2: when generation finishes the list holds exactly 70 records, the one
\* at 0-based position k with baseExcess 2^(k div 7) and the (k mod 7)-th
\* count of [1, 2, 8, 16, 32, 64, 100]; the list only grows by appending at
\* its end: no record is reordered, replaced or removed.
OrderedGeneration == []OrderedState /\ [][AppendOnly]_vars

\* C2 witness: generation has finished: the document is built from a list
\* whose first record is (1, 1), eighth (1, 2) and last (100, 512).
OrderedGenerationWitness ==
    \E r \in Runs :
        /\ pc[r] = "write"
        /\ Len(output[r].vectors) = 70
        /\ output[r].vectors[1].numberOfWithdrawalRequests = 1
        /\ output[r].vectors[8].baseExcess = 2
        /\ output[r].vectors[8].numberOfWithdrawalRequests = 1
        /\ output[r].vectors[70].baseExcess = 512
        /\ output[r].vectors[70].numberOfWithdrawalRequests = 100

\* once the step counter exceeds the numerator, an iteration makes a
\* positive term strictly smaller
TermShrinks ==
    (/\ frame.pc = "loop"
     /\ frame'.pc = "loop"
     /\ frame.i > frame.numerator
     /\ BigLess(BigZero, frame.numerator_accum))
    => BigLess(frame'.numerator_accum, frame.numerator_accum)

\* C3: for every factor >= 0, numerator >= 0 and denominator > 0 the loop
\* reaches numerator_accum = 0 and fake_exponential returns; once i exceeds
\* numerator the term strictly decreases on every iteration while positive.
Terminates ==
    /\ <>(frame.pc = "done" /\ frame.numerator_accum = BigZero)
    /\ [][TermShrinks]_vars

\* C3 witness: a call with a positive numerator has returned after
\* iterating beyond the point where i exceeds the numerator.
TerminatesWitness ==
    /\ frame.pc = "done"
    /\ frame.numerator > 1
    /\ frame.factor > 0
    /\ frame.i > frame.numerator + 2

\* C4: fake_exponential is non-decreasing in numerator: for fixed factor
\* and denominator and n1 <= n2, fake_exponential(factor, n1, denominator)
\* <= fake_exponential(factor, n2, denominator).
Monotone ==
    frame.pc = "done" =>
        \A n1 \in 0..frame.numerator :
            BigLeq(fake_exponential(frame.factor, n1, frame.denominator),
                   frame.result)

\* C4 witness: a call has returned whose result is strictly above the one
\* for the numerator just below, and equal to the one two below that.
MonotoneWitness ==
    /\ frame.pc = "done"
    /\ frame.numerator >= 3
    /\ BigLess(fake_exponential(frame.factor, frame.numerator - 1,
                                frame.denominator), frame.result)
    /\ fake_exponential(frame.factor, frame.numerator - 3,
                        frame.denominator) =
         fake_exponential(frame.factor, frame.numerator - 2,
                          frame.denominator)

\* C5: for every factor >= 0 and denominator > 0,
\* fake_exponential(factor, 0, denominator) returns exactly factor.
ZeroNumeratorReturnsFactor ==
    (frame.pc = "done" /\ frame.numerator = 0) =>
        frame.result = Nat2Big(frame.factor)

\* C5 witness: a call with numerator 0, a factor above 1 and a denominator
\* above 1 has returned.
ZeroNumeratorReturnsFactorWitness ==
    /\ frame.pc = "done"
    /\ frame.numerator = 0
    /\ frame.factor > 1
    /\ frame.denominator > 1
    /\ frame.output = Nat2Big(frame.factor * frame.denominator)

\* C6: two runs with the same constants, stepped side by side, produce
\* identical documents (same vectors, same constants) and leave identical
\* files, whatever the target file of each held before.
Deterministic ==
    \A r1 \in Runs : \A r2 \in Runs :
        /\ (Len(test_vectors[r1]) <= Len(test_vectors[r2])) =>
             test_vectors[r1] =
               SubSeq(test_vectors[r2], 1, Len(test_vectors[r1]))
        /\ (output[r1] # Unbound /\ output[r2] # Unbound) =>
             output[r1] = output[r2]
        /\ (exit_code[r1] = 0 /\ exit_code[r2] = 0) =>
             /\ file[r1] = file[r2]
             /\ file[r1].value = output[r2]

\* C6 witness: both runs have ended with exit code 0, each having written
\* the document of 70 vectors.
DeterministicWitness ==
    /\ Runs = {1, 2}
    /\ \A r \in Runs :
         /\ exit_code[r] = 0
         /\ file[r].kind = "json"
         /\ Len(file[r].value.vectors) = 70

\* a run in the error state has exit code 1 and has printed nothing; exit
\* code 0 is that of a run that wrote the file and reached the end, which a
\* run past the write can always go on towards
AbortState ==
    \A r \in Runs :
        /\ pc[r] = "error" =>
             /\ exit_code[r] = 1
             /\ console[r] = <<>>
             /\ file[r].kind # "json"
        /\ exit_code[r] = 0 <=> pc[r] = "done"
        /\ exit_code[r] = 0 => (writes[r] = 1 /\ file[r].kind = "json")
        /\ exit_code[r] = NotExited <=> pc[r] \notin {"done", "error"}
        /\ pc[r] \in {"print_total", "print_vectors", "done"} =>
             file[r].kind = "json"
        /\ pc[r] \in {"print_total", "print_vectors"} =>
             ENABLED (PrintTotal(r) \/ PrintVector(r) \/ Exit(r))

\* a run in the error state stays as it is: no retry, no later statement;
\* a run whose write succeeded does not fail any more
AbortStep ==
    \A r \in Runs :
        /\ pc[r] = "error" =>
             /\ pc'[r] = "error"
             /\ exit_code'[r] = exit_code[r]
             /\ writes'[r] = writes[r]
             /\ file'[r] = file[r]
             /\ console'[r] = console[r]
        /\ pc[r] \in {"print_total", "print_vectors", "done"} =>
             /\ pc'[r] \in {"print_total", "print_vectors", "done"}
             /\ exit_code'[r] \in {NotExited, 0}
        /\ pc'[r] = "error" => pc[r] \in {"write", "error"}

\* C7: if opening or writing the file fails the run aborts in an error
\* state with a non-zero exit code: no retry, no later step (no total
\* line, no summary line), never the final state with exit code 0; when
\* the write succeeds the run ends with exit code 0.
WriteFailureAborts == []AbortState /\ [][AbortStep]_vars

\* C7 witness: the dump failed under a run that had generated all vectors:
\* it is in the error state, the file cut short.
WriteFailureAbortsWitness ==
    \E r \in Runs :
        /\ pc[r] = "error"
        /\ file[r] = PartialFile
        /\ Len(test_vectors[r]) = 70

\* the excess values of the records generated so far
ExcessValuesSeen(r) ==
    {test_vectors[r][k].baseExcess : k \in 1..Len(test_vectors[r])}

\* C8 as stated: fake_exponential is called once per distinct excess value
\* (10 calls in a complete run), the 7 records of an excess sharing one
\* result.
CalledOncePerExcess ==
    \A r \in Runs :
        /\ calls[r] = Cardinality(ExcessValuesSeen(r))
        /\ pc[r] # "generate" => calls[r] = 10

\* C8 as amended: fake_exponential is called once per record, that is once
\* per pair of excess value and request count (70 calls in a complete run,
\* 7 for each 2^i with i in 0..9), and each record's expectedFee is its own
\* call's result multiplied by its request count.
CalledOncePerRecord ==
    \A r \in Runs :
        /\ calls[r] = Len(test_vectors[r])
        /\ pc[r] # "generate" => calls[r] = 70
        /\ \A e \in ExcessValuesSeen(r) :
             Cardinality({k \in 1..Len(test_vectors[r]) :
                            test_vectors[r][k].baseExcess = e}) <= 7
        /\ \A k \in 1..Len(test_vectors[r]) :
             BigDiv(test_vectors[r][k].expectedFee,
                    test_vectors[r][k].numberOfWithdrawalRequests) =
               test_vectors[r][k].baseFee

\* C8 witness: a complete run: 70 calls, 10 excess values.
CalledOncePerRecordWitness ==
    \E r \in Runs :
        /\ pc[r] = "done"
        /\ calls[r] = 70
        /\ Cardinality(ExcessValuesSeen(r)) = 10

\* the file is opened for writing at most once, with the list complete and
\* the document built, and nothing is printed before
WriteOnceState ==
    \A r \in Runs :
        /\ writes[r] <= 1
        /\ writes[r] = 1 =>
             /\ Len(test_vectors[r]) = 70
             /\ output[r] = Document(test_vectors[r])
        /\ console[r] # <<>> => writes[r] = 1
        /\ pc[r] = "generate" => (output[r] = Unbound /\ writes[r] = 0)

\* the write happens with an empty console, and after it neither the
\* list, nor the document, nor the file changes
WriteOnceStep ==
    \A r \in Runs :
        /\ writes'[r] # writes[r] =>
             /\ console[r] = <<>>
             /\ Len(test_vectors[r]) = 70
        /\ writes[r] >= 1 =>
             /\ test_vectors'[r] = test_vectors[r]
             /\ output'[r] = output[r]
             /\ file'[r] = file[r]
             /\ writes'[r] = writes[r]

\* C9: compute, then write: the file is written at most once per run,
\* only after all 70 vectors are appended and before any console output,
\* and neither the list nor the document is modified after the write.
ComputeThenWrite == []WriteOnceState /\ [][WriteOnceStep]_vars

\* C9 witness: a run has written the file and printed the total line and
\* every summary line.
ComputeThenWriteWitness ==
    \E r \in Runs :
        /\ writes[r] = 1
        /\ pc[r] = "done"
        /\ Len(console[r]) = 71
        /\ file[r].value = output[r]

\* C10 as stated: for numerator 0, any factor >= 0 and any denominator > 0
\* the loop body executes exactly once, output receives only the first
\* term factor * denominator, and the first update sets the term to 0.
ZeroNumeratorOneIteration ==
    (frame.pc = "done" /\ frame.numerator = 0) =>
        /\ frame.i = 2
        /\ frame.output = Nat2Big(frame.factor * frame.denominator)
        /\ frame.numerator_accum = BigZero

\* C10 as amended: for numerator 0, any factor > 0 and any denominator > 0
\* the loop body executes exactly once, output receives only the first
\* term factor * denominator, and the first update sets the term to 0; for
\* factor 0 the first term is already 0 and the body does not execute.
ZeroNumeratorAtMostOneIteration ==
    (frame.pc \in {"loop", "done"} /\ frame.numerator = 0) =>
        /\ frame.i <= 2
        /\ frame.i = 2 =>
             /\ frame.output = Nat2Big(frame.factor * frame.denominator)
             /\ frame.numerator_accum = BigZero
        /\ frame.pc = "done" =>
             frame.i = (IF frame.factor > 0 THEN 2 ELSE 1)
        /\ (frame.i = 1 /\ frame.factor > 0) =>
             /\ frame.pc = "loop"
             /\ frame.output = BigZero
             /\ BigLess(BigZero, frame.numerator_accum)

\* C10 witness: a call with numerator 0 and a positive factor is back at
\* the test of the loop after its first iteration.
ZeroNumeratorAtMostOneIterationWitness ==
    /\ frame.pc = "loop"
    /\ frame.numerator = 0
    /\ frame.factor > 0
    /\ frame.denominator > 1
    /\ frame.i = 2

====
